---- MODULE Spec2Model ----
(***************************************************************************)
(* Model of the Obsidian Image Scaler plugin: the image-syntax parser      *)
(* (utils.ts), the tag renderer and the drag-to-zoom controller            *)
(* (image-resize-controller.ts) with the hover controller and view plugin  *)
(* that drive it.  Texts are strings; a character of a text is a           *)
(* one-character string, offsets are 0-based as in the source.             *)
(***************************************************************************)
EXTENDS Integers, Sequences, FiniteSets, TLC

(***************************************************************************)
(* Characters and JavaScript string primitives                             *)
(***************************************************************************)
Undef == "undefined"

\* s.charAt(i), i 0-based; "" outside the string
CharAt(s, i) == IF i >= 0 /\ i < Len(s) THEN SubSeq(s, i + 1, i + 1) ELSE ""

\* s.substring(a, b), 0-based, b exclusive
Slice(s, a, b) == IF b <= a THEN "" ELSE SubSeq(s, a + 1, b)

Digits == {"0", "1", "2", "3", "4", "5", "6", "7", "8", "9"}

\* the characters the regular expression class \s accepts (those that can occur here)
Spaces == {" ", "\t", "\n", "\r", "\f"}

UpperLower == [A |-> "a", B |-> "b", C |-> "c", D |-> "d", E |-> "e", F |-> "f",
               G |-> "g", H |-> "h", I |-> "i", J |-> "j", K |-> "k", L |-> "l",
               M |-> "m", N |-> "n", O |-> "o", P |-> "p", Q |-> "q", R |-> "r",
               S |-> "s", T |-> "t", U |-> "u", V |-> "v", W |-> "w", X |-> "x",
               Y |-> "y", Z |-> "z"]

\* case folding used by the i flag
Lower(c) == IF c \in DOMAIN UpperLower THEN UpperLower[c] ELSE c

DigitVal == [d \in Digits |->
               CASE d = "0" -> 0 [] d = "1" -> 1 [] d = "2" -> 2 [] d = "3" -> 3
                 [] d = "4" -> 4 [] d = "5" -> 5 [] d = "6" -> 6 [] d = "7" -> 7
                 [] d = "8" -> 8 [] d = "9" -> 9]

RECURSIVE ParseIntFrom(_, _, _)
ParseIntFrom(s, i, acc) ==
    IF i < Len(s) /\ CharAt(s, i) \in Digits
    THEN ParseIntFrom(s, i + 1, acc * 10 + DigitVal[CharAt(s, i)])
    ELSE acc

\* parseInt(s, 10) of a string that starts with a digit
ParseInt(s) == ParseIntFrom(s, 0, 0)

RECURSIVE TrimStart(_)
TrimStart(s) == IF Len(s) > 0 /\ CharAt(s, 0) \in Spaces
                THEN TrimStart(Slice(s, 1, Len(s))) ELSE s

RECURSIVE TrimEnd(_)
TrimEnd(s) == IF Len(s) > 0 /\ CharAt(s, Len(s) - 1) \in Spaces
              THEN TrimEnd(Slice(s, 0, Len(s) - 1)) ELSE s

\* String.prototype.trim
Trim(s) == TrimEnd(TrimStart(s))

(***************************************************************************)
(* Regular expressions.  Each regular expression of the source is an       *)
(* operator that computes the match JavaScript's backtracking matcher      *)
(* returns: the leftmost start, and for that start the first success in    *)
(* the order the quantifiers and alternatives are tried (greedy: longest   *)
(* first, lazy: shortest first, alternatives left to right).  A match is   *)
(* [ok, index, end, g], with g[n] = <<from, to>> the span of group n and   *)
(* <<-1, -1>> for a group that took no part.                               *)
(***************************************************************************)
NoGroup == <<-1, -1>>

NoMatch == [ok |-> FALSE, index |-> -1, end |-> -1, g |-> << >>]

\* the element of a one-element set; { e(v) : v \in {x} } computes x once
The(S) == CHOOSE v \in S : TRUE

Min(S) == CHOOSE m \in S : \A k \in S : m <= k

\* c is a character of the class (set, or its complement when neg)
InCls(c, set, neg) == c # "" /\ ((c \in set) # neg)

\* where the longest run of class characters that starts at pos ends
RunEnd(s, pos, set, neg) ==
    IF pos >= Len(s) THEN pos
    ELSE CHOOSE j \in pos..Len(s) :
            /\ ~InCls(CharAt(s, j), set, neg)
            /\ \A k \in pos..(j - 1) : InCls(CharAt(s, k), set, neg)

\* the literal lit (given in lower case) stands at pos, letters compared as the i flag does
AtCI(s, pos, lit) ==
    /\ pos >= 0 /\ pos + Len(lit) <= Len(s)
    /\ \A k \in 1..Len(lit) : Lower(SubSeq(s, pos + k, pos + k)) = SubSeq(lit, k, k)

\* the literal lit stands at pos
At(s, pos, lit) ==
    /\ pos >= 0 /\ pos + Len(lit) <= Len(s)
    /\ SubSeq(s, pos + 1, pos + Len(lit)) = lit

\* match[n]; Undef when the group did not take part in the match
Group(s, m, n) ==
    IF ~m.ok \/ m.g[n][1] < 0 THEN Undef ELSE Slice(s, m.g[n][1], m.g[n][2])

\* match[0]
Whole(s, m) == Slice(s, m.index, m.end)

\* a JavaScript string value that is neither undefined nor ""
Truthy(v) == v # Undef /\ v # ""

\* a || b on string values
Or(a, b) == IF Truthy(a) THEN a ELSE b

LineEnds == {"\n", "\r"}

Quotes == {"\"", "'"}

\* \]\(([^)]+)\) at p: [^)]+ runs to the first ")" and must not be empty
MdRest(s, p) ==
    The({ [ok |-> At(s, p, "](") /\ pe > p + 2 /\ pe < Len(s),
           g3 |-> <<p + 2, pe>>, end |-> pe + 1]
          : pe \in {RunEnd(s, p + 2, {")"}, TRUE)} })

\* where \d+(?:x\d+)? ends when it starts at d and is followed by "]": the
\* digits are taken greedily, then "x" and digits when both are there; a
\* shorter choice never helps because the next character must be "]"
DimsEnd(s, d) ==
    The({ IF d1 > d /\ CharAt(s, d1) = "x" /\ RunEnd(s, d1 + 1, Digits, FALSE) > d1 + 1
          THEN RunEnd(s, d1 + 1, Digits, FALSE) ELSE d1
          : d1 \in {RunEnd(s, d, Digits, FALSE)} })

\* (?:\|(\d+(?:x\d+)?))?\]\(([^)]+)\) at e; without "|" the group is skipped
MdTail(s, e) ==
    IF CharAt(s, e) = "|"
    THEN The({ [ok |-> dEnd > e + 1 /\ r.ok, g2 |-> <<e + 1, dEnd>>,
                g3 |-> r.g3, end |-> r.end]
               : r \in {MdRest(s, DimsEnd(s, e + 1))}, dEnd \in {DimsEnd(s, e + 1)} })
    ELSE The({ [ok |-> r.ok, g2 |-> NoGroup, g3 |-> r.g3, end |-> r.end]
               : r \in {MdRest(s, e)} })

\* the alt text s[i+2 .. e) of a match that starts at i is accepted by (.*?)
MdAltOk(s, i, e) == \A k \in (i + 2)..(e - 1) : CharAt(s, k) \notin LineEnds

\* the ends e of the alt text, for a match starting at i, that let the rest match
MdAltEnds(s, i) == {e \in (i + 2)..Len(s) : MdAltOk(s, i, e) /\ MdTail(s, e).ok}

\* the match that starts at i, given the alt-text ends that work.  (.*?)? tries
\* the non-empty alt texts first, shortest first: an iteration of the group
\* that consumes nothing is rejected (ECMAScript RepeatMatcher: "if min = 0 and
\* y's endIndex = x's endIndex, return failure"), so the empty alt text is the
\* last choice, with group 1 left undefined.
MdAt(s, i, ends) ==
    The({ The({ [ok |-> TRUE, index |-> i, end |-> t.end,
                 g |-> << IF e > i + 2 THEN <<i + 2, e>> ELSE NoGroup, t.g2, t.g3 >>]
                : t \in {MdTail(s, e)} })
          : e \in { IF \E x \in ends : x > i + 2
                    THEN Min({x \in ends : x > i + 2}) ELSE i + 2 } })

\* /!\[(.*?)?(?:\|(\d+(?:x\d+)?))?\]\(([^)]+)\)/
markdownRegex(s) ==
    The({ IF starts = {} THEN NoMatch
          ELSE MdAt(s, Min(starts), MdAltEnds(s, Min(starts)))
          : starts \in { {i \in 0..(Len(s) - 2) : At(s, i, "![") /\ MdAltEnds(s, i) # {}} } })

\* the match of /!\[\[([^|\]]+)(?:\|([^|\]]*))?\]\]/ that starts at i.  The path
\* runs to the first "|" or "]"; after "|" the suffix runs to the next "|" or
\* "]"; "]]" must follow.
WikiAt(s, i) ==
    The({ IF ~At(s, i, "![[") \/ p1 = i + 3 THEN NoMatch
          ELSE IF CharAt(s, p1) = "|"
          THEN The({ IF At(s, p2, "]]")
                     THEN [ok |-> TRUE, index |-> i, end |-> p2 + 2,
                           g |-> << <<i + 3, p1>>, <<p1 + 1, p2>> >>]
                     ELSE NoMatch
                     : p2 \in {RunEnd(s, p1 + 1, {"|", "]"}, TRUE)} })
          ELSE IF At(s, p1, "]]")
               THEN [ok |-> TRUE, index |-> i, end |-> p1 + 2,
                     g |-> << <<i + 3, p1>>, NoGroup >>]
               ELSE NoMatch
          : p1 \in {RunEnd(s, i + 3, {"|", "]"}, TRUE)} })

\* /!\[\[([^|\]]+)(?:\|([^|\]]*))?\]\]/
wikilinkRegex(s) ==
    The({ IF starts = {} THEN NoMatch ELSE WikiAt(s, Min(starts))
          : starts \in { {i \in 0..(Len(s) - 3) : At(s, i, "![[") /\ WikiAt(s, i).ok} } })

\* the pattern without its end anchor: /^(\d+)(?:x(\d+))?/
dimRegexPrefix(s) ==
    The({ IF d1 = 0 THEN NoMatch
          ELSE IF CharAt(s, d1) = "x" /\ RunEnd(s, d1 + 1, Digits, FALSE) > d1 + 1
          THEN [ok |-> TRUE, index |-> 0, end |-> RunEnd(s, d1 + 1, Digits, FALSE),
                g |-> << <<0, d1>>, <<d1 + 1, RunEnd(s, d1 + 1, Digits, FALSE)>> >>]
          ELSE [ok |-> TRUE, index |-> 0, end |-> d1, g |-> << <<0, d1>>, NoGroup >>]
          : d1 \in {RunEnd(s, 0, Digits, FALSE)} })

\* /^(\d+)(?:x(\d+))?$/
dimRegex(s) ==
    The({ IF d1 = 0 THEN NoMatch
          ELSE IF d1 = Len(s)
          THEN [ok |-> TRUE, index |-> 0, end |-> d1, g |-> << <<0, d1>>, NoGroup >>]
          ELSE IF CharAt(s, d1) = "x" /\ d1 + 1 < Len(s)
                  /\ RunEnd(s, d1 + 1, Digits, FALSE) = Len(s)
          THEN [ok |-> TRUE, index |-> 0, end |-> Len(s),
                g |-> << <<0, d1>>, <<d1 + 1, Len(s)>> >>]
          ELSE NoMatch
          : d1 \in {RunEnd(s, 0, Digits, FALSE)} })

\* there is a ">" at or after p, which is all that [^>]*?> asks for
HasGt(s, p) == \E k \in p..(Len(s) - 1) : CharAt(s, k) = ">"

\* where [^>]*?> ends when it starts at p
GtEnd(s, p) == RunEnd(s, p, {">"}, TRUE) + 1

\* the positions t at which \s+[^>]*?\s*name= can reach the attribute name when
\* it starts at p: p holds a space and no ">" stands between p and t.  They are
\* tried in increasing order (the lazy [^>]*? grows one character at a time).
AttrStarts(s, p, name) ==
    IF CharAt(s, p) \notin Spaces THEN {}
    ELSE {t \in (p + 1)..(RunEnd(s, p, {">"}, TRUE)) : AtCI(s, t, name)}

\* (?:["'](Q)["']|(B)) at v, Q = [^"']{min,} and B = [^>\s]{min,}, followed by
\* the rest of the tag.  The quoted form is tried first; it ends at the next
\* quote character.  The bare form takes the longest run.  What follows can
\* always be skipped down to [^>]*?>, so a form succeeds iff a ">" follows it.
AttrValue(s, v, min) ==
    The({ IF CharAt(s, v) \in Quotes /\ q - (v + 1) >= min /\ q < Len(s) /\ HasGt(s, q + 1)
          THEN [ok |-> TRUE, quoted |-> <<v + 1, q>>, bare |-> NoGroup, end |-> q + 1]
          ELSE IF b - v >= min /\ HasGt(s, b)
          THEN [ok |-> TRUE, quoted |-> NoGroup, bare |-> <<v, b>>, end |-> b]
          ELSE [ok |-> FALSE, quoted |-> NoGroup, bare |-> NoGroup, end |-> v]
          : q \in {RunEnd(s, v + 1, Quotes, TRUE)},
            b \in {RunEnd(s, v, {">"} \cup Spaces, TRUE)} })

\* (?:\s+[^>]*?\s*name=VALUE)? at p: the first attribute start, in the order
\* tried, whose value matches; the group is skipped when there is none
AttrGroup(s, p, name, min) ==
    The({ IF ts = {} THEN [ok |-> FALSE, quoted |-> NoGroup, bare |-> NoGroup, end |-> p]
          ELSE AttrValue(s, Min(ts) + Len(name), min)
          : ts \in { {t \in AttrStarts(s, p, name) :
                        AttrValue(s, t + Len(name), min).ok} } })

\* the positions q at which <img\s+(?:[^>]*?\s+)?src= can reach "src=" when it
\* starts at i: a space follows "<img", a space precedes q and no ">" stands
\* between
SrcStarts(s, i) ==
    IF ~AtCI(s, i, "<img") \/ CharAt(s, i + 4) \notin Spaces THEN {}
    ELSE {q \in (i + 5)..(RunEnd(s, i + 4, {">"}, TRUE)) :
            AtCI(s, q, "src=") /\ CharAt(s, q - 1) \in Spaces}

\* the "src=" position the matcher settles on for a match starting at i, -1 if
\* none.  \s+ first takes all spaces after "<img" (up to w); the optional group
\* is tried before it is skipped and its lazy [^>]*? grows from there, so the
\* positions beyond w are tried in increasing order and w itself last.
SrcChoice(s, i) ==
    The({ IF \E q \in good : q > w THEN Min({q \in good : q > w})
          ELSE IF w \in good THEN w ELSE -1
          : good \in { {q \in SrcStarts(s, i) : AttrValue(s, q + 4, 1).ok} },
            w \in {RunEnd(s, i + 4, Spaces, FALSE)} })

\* the match of htmlImgRegex that starts at i and reaches "src=" at q
HtmlAt(s, i, q) ==
    The({ The({ The({
        [ok |-> TRUE, index |-> i, end |-> GtEnd(s, style.end),
         g |-> << <<i, GtEnd(s, style.end)>>, src.quoted, src.bare,
                  alt.quoted, alt.bare, style.quoted, style.bare >>]
        : style \in {AttrGroup(s, alt.end, "style=", 1)} })
        : alt \in {AttrGroup(s, src.end, "alt=", 0)} })
        : src \in {AttrValue(s, q + 4, 1)} })

\* /(<img\s+(?:[^>]*?\s+)?src=(?:["']([^"']+)["']|([^>\s]+))
\*   (?:\s+[^>]*?\s*alt=(?:["']([^"']*)["']|([^>\s]*)))?
\*   (?:\s+[^>]*?\s*style=(?:["']([^"']+)["']|([^>\s]+)))?[^>]*?>)/i
htmlImgRegex(s) ==
    The({ IF starts = {} THEN NoMatch
          ELSE HtmlAt(s, Min(starts), SrcChoice(s, Min(starts)))
          : starts \in { {i \in 0..(Len(s) - 4) :
                            AtCI(s, i, "<img") /\ SrcChoice(s, i) >= 0} } })

\* the match of /name:\s*(\d+)unit/i that starts at i
DeclAt(s, i, name, unit) ==
    The({ IF AtCI(s, i, name) /\ d > w /\ AtCI(s, d, unit)
          THEN [ok |-> TRUE, index |-> i, end |-> d + Len(unit), g |-> << <<w, d>> >>]
          ELSE NoMatch
          : w \in {RunEnd(s, i + Len(name), Spaces, FALSE)},
            d \in {RunEnd(s, RunEnd(s, i + Len(name), Spaces, FALSE), Digits, FALSE)} })

\* /width:\s*(\d+)px/i, /height:\s*(\d+)px/i and, with unit "", /zoom:\s*(\d+)%?/i
\* (the optional "%" changes neither the group nor whether there is a match)
DeclRegex(s, name, unit) ==
    The({ IF starts = {} THEN NoMatch ELSE DeclAt(s, Min(starts), name, unit)
          : starts \in { {i \in 0..(Len(s) - 1) :
                            AtCI(s, i, name) /\ DeclAt(s, i, name, unit).ok} } })

(***************************************************************************)
(* utils.ts: the three grammars                                            *)
(***************************************************************************)
NoNum == -1

\* the null a grammar returns when it does not match
NoParse ==
    [ok |-> FALSE, path |-> "", altText |-> Undef, specifiedWidth |-> NoNum,
     specifiedHeight |-> NoNum, originalMatch |-> "", startIndexInLine |-> 0,
     isHtml |-> FALSE, currentZoomPercent |-> NoNum]

\* the number a style declaration holds, NoNum (undefined) when the style has none
StyleNum(styleString, name, unit) ==
    The({ IF m.ok /\ Truthy(Group(styleString, m, 1))
          THEN ParseInt(Group(styleString, m, 1)) ELSE NoNum
          : m \in {DeclRegex(styleString, name, unit)} })

\* dimensionsString.split("x")
SplitX(d) ==
    LET xs == {i \in 0..(Len(d) - 1) : CharAt(d, i) = "x"} IN
    IF xs = {} THEN << d >>
    ELSE << Slice(d, 0, Min(xs)), Slice(d, Min(xs) + 1, Len(d)) >>

\* the record parseMarkdown builds from a match
MarkdownInfo(lineText, match) ==
    IF ~match.ok THEN NoParse
    ELSE LET dimensionsString == Group(lineText, match, 2)
             dims == IF Truthy(dimensionsString) THEN SplitX(dimensionsString) ELSE << "" >>
         IN [ok |-> TRUE,
             path |-> Trim(Group(lineText, match, 3)),
             altText |-> Or(Group(lineText, match, 1), Undef),
             specifiedWidth |-> IF Truthy(dims[1]) THEN ParseInt(dims[1]) ELSE NoNum,
             specifiedHeight |-> IF Len(dims) > 1 /\ Truthy(dims[2])
                                 THEN ParseInt(dims[2]) ELSE NoNum,
             originalMatch |-> Whole(lineText, match),
             startIndexInLine |-> match.index,
             isHtml |-> FALSE,
             currentZoomPercent |-> NoNum]

\* a parser whose Markdown record always has the start offset 0
parseMarkdownStartZero(lineText) ==
    The({ [MarkdownInfo(lineText, match) EXCEPT !.startIndexInLine = 0]
          : match \in {markdownRegex(lineText)} })

parseMarkdown(lineText) ==
    The({ MarkdownInfo(lineText, match) : match \in {markdownRegex(lineText)} })

\* the record parseWikilink builds from a match
WikilinkInfo(lineText, match) ==
    IF ~match.ok THEN NoParse
    ELSE The({ [ok |-> TRUE,
                path |-> Trim(Group(lineText, match, 1)),
                altText |-> IF dimMatch.ok THEN Undef ELSE Group(lineText, match, 2),
                specifiedWidth |->
                    IF dimMatch.ok /\ Truthy(Group(Group(lineText, match, 2), dimMatch, 1))
                    THEN ParseInt(Group(Group(lineText, match, 2), dimMatch, 1)) ELSE NoNum,
                specifiedHeight |->
                    IF dimMatch.ok /\ Truthy(Group(Group(lineText, match, 2), dimMatch, 2))
                    THEN ParseInt(Group(Group(lineText, match, 2), dimMatch, 2)) ELSE NoNum,
                originalMatch |-> Whole(lineText, match),
                startIndexInLine |-> match.index,
                isHtml |-> FALSE,
                currentZoomPercent |-> NoNum]
               : dimMatch \in { IF Truthy(Group(lineText, match, 2))
                                THEN dimRegex(Group(lineText, match, 2))
                                ELSE NoMatch } })

parseWikilink(lineText) ==
    The({ WikilinkInfo(lineText, match) : match \in {wikilinkRegex(lineText)} })

\* the record parseHtml builds from a match
HtmlInfo(lineText, htmlMatch) ==
    IF ~htmlMatch.ok THEN NoParse
    ELSE LET path == Or(Group(lineText, htmlMatch, 2), Group(lineText, htmlMatch, 3))
             altText == Or(Group(lineText, htmlMatch, 4),
                           Or(Group(lineText, htmlMatch, 5), Undef))
             styleString == Or(Group(lineText, htmlMatch, 6),
                               Or(Group(lineText, htmlMatch, 7), Undef))
         IN IF ~Truthy(path) THEN NoParse
            ELSE [ok |-> TRUE,
                  path |-> Trim(path),
                  altText |-> IF Truthy(altText) THEN Trim(altText) ELSE Undef,
                  specifiedWidth |-> IF Truthy(styleString)
                                     THEN StyleNum(styleString, "width:", "px")
                                     ELSE NoNum,
                  specifiedHeight |-> IF Truthy(styleString)
                                      THEN StyleNum(styleString, "height:", "px")
                                      ELSE NoNum,
                  originalMatch |-> Whole(lineText, htmlMatch),
                  startIndexInLine |-> htmlMatch.index,
                  isHtml |-> TRUE,
                  currentZoomPercent |-> IF Truthy(styleString)
                                         THEN StyleNum(styleString, "zoom:", "")
                                         ELSE NoNum]

parseHtml(lineText) ==
    The({ HtmlInfo(lineText, htmlMatch) : htmlMatch \in {htmlImgRegex(lineText)} })

\* a parser that tries the HTML tag first
parseImageSyntaxFromLineHtmlFirst(lineText) ==
    The({ IF html.ok THEN html
          ELSE The({ IF md.ok THEN md ELSE parseWikilink(lineText)
                     : md \in {parseMarkdown(lineText)} })
          : html \in {parseHtml(lineText)} })

parseImageSyntaxFromLine(lineText) ==
    The({ IF md.ok THEN md
          ELSE The({ IF wl.ok THEN wl ELSE parseHtml(lineText)
                     : wl \in {parseWikilink(lineText)} })
          : md \in {parseMarkdown(lineText)} })

\* an escape that leaves the text as it is
escapeHtmlNothing(unsafe) == unsafe

RECURSIVE escapeHtml(_)
escapeHtml(unsafe) ==
    IF unsafe = "" THEN ""
    ELSE LET c == CharAt(unsafe, 0) IN
         (CASE c = "&" -> "&amp;"
            [] c = "<" -> "&lt;"
            [] c = ">" -> "&gt;"
            [] c = "\"" -> "&quot;"
            [] c = "'" -> "&#039;"
            [] OTHER -> c)
         \o escapeHtml(Slice(unsafe, 1, Len(unsafe)))

\* escapeRegExp(path) placed in a RegExp with the i flag: the text of path,
\* taken literally and compared without regard to case
AtPathCI(s, pos, path) ==
    /\ pos >= 0 /\ pos + Len(path) <= Len(s)
    /\ \A k \in 1..Len(path) : Lower(SubSeq(s, pos + k, pos + k)) = Lower(SubSeq(path, k, k))

\* the match of imgTagToReplaceRegex that starts at i: "<img", all the spaces
\* that follow, "src=", the path between quote characters or else bare, then
\* [^>]*> up to the first ">"
ImgTagAt(s, i, path) ==
    The({ IF ~AtCI(s, i, "<img") \/ w = i + 4 \/ ~AtCI(s, w, "src=") THEN NoMatch
          ELSE IF /\ CharAt(s, w + 4) \in Quotes
                  /\ AtPathCI(s, w + 5, path)
                  /\ CharAt(s, w + 5 + Len(path)) \in Quotes
                  /\ HasGt(s, w + 6 + Len(path))
          THEN [ok |-> TRUE, index |-> i, end |-> GtEnd(s, w + 6 + Len(path)), g |-> << >>]
          ELSE IF AtPathCI(s, w + 4, path) /\ HasGt(s, w + 4 + Len(path))
          THEN [ok |-> TRUE, index |-> i, end |-> GtEnd(s, w + 4 + Len(path)), g |-> << >>]
          ELSE NoMatch
          : w \in {RunEnd(s, i + 4, Spaces, FALSE)} })

\* new RegExp(`<img\\s+src=(?:["']${escapeRegExp(path)}["']|${escapeRegExp(path)})[^>]*>`, "i")
imgTagToReplaceRegex(s, path) ==
    The({ IF starts = {} THEN NoMatch ELSE ImgTagAt(s, Min(starts), path)
          : starts \in { {i \in 0..(Len(s) - 4) :
                            AtCI(s, i, "<img") /\ ImgTagAt(s, i, path).ok} } })

\* style.zoom.match(/(\d+)/): the first run of digits, Undef when there is none
ZoomDigits(z) ==
    The({ IF ds = {} THEN Undef
          ELSE Slice(z, Min(ds), RunEnd(z, Min(ds), Digits, FALSE))
          : ds \in { {i \in 0..(Len(z) - 1) : CharAt(z, i) \in Digits} } })

(***************************************************************************)
(* The rendered tag (image-resize-controller.ts, startResize and           *)
(* handleDocumentMouseUp build it with the same template).                 *)
(***************************************************************************)
\* the style of the README: `zoom: ${z}%; ` first, then the width and the height
StyleStringZoomFirst(sourceWidth, sourceHeight, zoom) ==
    "zoom: " \o ToString(zoom) \o "%; "
    \o (IF sourceWidth > 0 THEN "width: " \o ToString(sourceWidth) \o "px; " ELSE "")
    \o (IF sourceHeight > 0 THEN "height: " \o ToString(sourceHeight) \o "px" ELSE "")

\* `width: ${w}px; ` and `height: ${h}px; ` when truthy, then `zoom: ${z}%;`
StyleString(sourceWidth, sourceHeight, zoom) ==
    (IF sourceWidth > 0 THEN "width: " \o ToString(sourceWidth) \o "px; " ELSE "")
    \o (IF sourceHeight > 0 THEN "height: " \o ToString(sourceHeight) \o "px; " ELSE "")
    \o "zoom: " \o ToString(zoom) \o "%;"

\* `<img src="${path}" alt="${safeAltText}" style="${styleString.trim()}">`
ImgTag(info, zoom) ==
    "<img src=\"" \o info.path \o "\" alt=\""
    \o (IF Truthy(info.altText) THEN escapeHtml(info.altText) ELSE "")
    \o "\" style=\"" \o Trim(StyleString(info.sourceWidth, info.sourceHeight, zoom)) \o "\">"

(***************************************************************************)
(* The text engine (CodeMirror): the document is one string, lines are     *)
(* separated by "\n".                                                      *)
(***************************************************************************)
\* doc.lineAt(pos) throws a RangeError for a position outside the document
LineAtThrows(d, pos) == pos < 0 \/ pos > Len(d)

LineFrom(d, pos) ==
    IF \E k \in 0..(pos - 1) : CharAt(d, k) = "\n"
    THEN 1 + (CHOOSE k \in 0..(pos - 1) :
                 /\ CharAt(d, k) = "\n"
                 /\ \A j \in (k + 1)..(pos - 1) : CharAt(d, j) # "\n")
    ELSE 0

LineTo(d, pos) == RunEnd(d, pos, {"\n"}, TRUE)

\* doc.lineAt(pos), for a position of the document
LineAt(d, pos) ==
    [text |-> Slice(d, LineFrom(d, pos), LineTo(d, pos)),
     from |-> LineFrom(d, pos), to |-> LineTo(d, pos)]

\* the document after changes: {from, to, insert}
Replace(d, from, to, insert) == Slice(d, 0, from) \o insert \o Slice(d, to, Len(d))

\* state.update({changes, selection}) throws a RangeError when the range is not
\* inside the document or the selection is not inside the new document
UpdateThrows(d, from, to, insert, anchor) ==
    \/ from > to \/ from < 0 \/ to > Len(d)
    \/ anchor < 0 \/ anchor > Len(d) - (to - from) + Len(insert)

\* where a position ends up after a change made by someone else
MapPos(pos, from, to, insert) ==
    IF pos <= from THEN pos
    ELSE IF pos >= to THEN pos - (to - from) + Len(insert)
    ELSE from + Len(insert)

(***************************************************************************)
(* The state the handlers work on.  A handler is an operator from a world  *)
(* w to the world it leaves:                                               *)
(*   w.doc, w.head  the editor's document and selection.main.head          *)
(*   w.rc           the fields of ImageResizeController                    *)
(*   w.hc           the fields of ImageHoverController                     *)
(*   w.dom          the image elements (style.cursor, style.zoom, whether  *)
(*                  the element is in the document, whether it carries the *)
(*                  hover controller's listeners) and the listeners on     *)
(*                  document and on the editor's content element           *)
(*   w.reps, w.threw  the replacements the running handler has dispatched  *)
(*                  and whether an exception has left it                   *)
(*   w.started      whether the running handler has called startResize     *)
(***************************************************************************)
\* the image elements of the editor
Imgs == {1}

NoImg == 0

\* lineInfoAtDragStart = null
NoLineInfo == [pos |-> -1, lineText |-> "", lineFrom |-> -1, lineTo |-> -1]

\* draggedImageInfo = null
NoImageInfo ==
    [set |-> FALSE, path |-> "", altText |-> Undef, sourceWidth |-> NoNum,
     sourceHeight |-> NoNum]

\* imgElement.getBoundingClientRect() of an image of the document
Rect == [left |-> 100, top |-> 100, width |-> 240, height |-> 100]

Abs(n) == IF n < 0 THEN -n ELSE n

\* Math.sqrt(dx * dx + dy * dy); the pointer positions of the model lie at whole
\* distances from the image center
Distance(dx, dy) ==
    IF dy = 0 THEN Abs(dx)
    ELSE IF dx = 0 THEN Abs(dy)
    ELSE CHOOSE r \in 0..(Abs(dx) + Abs(dy)) :
            r * r <= dx * dx + dy * dy /\ dx * dx + dy * dy < (r + 1) * (r + 1)

\* a clamp that forgets the upper limit
ClampNoMax(z) == IF z < 10 THEN 10 ELSE z

\* Math.max(10, Math.min(z, 500))
Clamp(z) == IF z < 10 THEN 10 ELSE IF z > 500 THEN 500 ELSE z

\* Math.round(zoom + distanceChange * 0.2), for a whole distanceChange
RoundZoom(zoom, distanceChange) == (10 * zoom + 2 * distanceChange + 5) \div 10

\* a reset that leaves the document listeners attached
resetStateKeepsListeners(w) ==
    [w EXCEPT !.rc.isDragging = FALSE,
              !.rc.lineInfoAtDragStart = NoLineInfo,
              !.rc.draggedImageInfo = NoImageInfo,
              !.dom.cursor = IF w.rc.activeImgElement # NoImg
                             THEN [@ EXCEPT ![w.rc.activeImgElement] = "default"]
                             ELSE @,
              !.rc.activeImgElement = NoImg]

resetState(w) ==
    [w EXCEPT !.rc.isDragging = FALSE,
              !.dom.docMouseMove = FALSE,
              !.dom.docMouseUp = FALSE,
              !.rc.lineInfoAtDragStart = NoLineInfo,
              !.rc.draggedImageInfo = NoImageInfo,
              !.dom.cursor = IF w.rc.activeImgElement # NoImg
                             THEN [@ EXCEPT ![w.rc.activeImgElement] = "default"]
                             ELSE @,
              !.rc.activeImgElement = NoImg]

\* an update that does not look whether the tracked image is still in the document
updateIgnoresDetached(w, docChanged) ==
    IF w.rc.isDragging /\ docChanged /\ w.rc.lineInfoAtDragStart # NoLineInfo
          /\ LineAtThrows(w.doc, w.rc.lineInfoAtDragStart.pos)
    THEN resetState(w)
    ELSE w

\* ImageResizeController.update, called by ImageHoverViewPlugin.update
update(w, docChanged) ==
    IF w.rc.isDragging /\ docChanged
    THEN IF w.rc.activeImgElement # NoImg /\ ~w.dom.inBody[w.rc.activeImgElement]
         THEN resetState(w)
         ELSE IF w.rc.lineInfoAtDragStart # NoLineInfo
                 /\ LineAtThrows(w.doc, w.rc.lineInfoAtDragStart.pos)
              THEN resetState(w)
              ELSE w
    ELSE w

\* view.dispatch(view.state.update({changes: {from, to, insert},
\* selection: {anchor}})): the update throws or the document changes and the
\* view plugin is notified before dispatch returns
dispatch(w, from, to, insert, anchor) ==
    The({ IF UpdateThrows(w.doc, c.from, c.to, c.insert, anchor)
          THEN [w EXCEPT !.threw = TRUE,
                         !.tried = Append(@, [from |-> from, to |-> to,
                                              insert |-> insert, anchor |-> anchor])]
          ELSE The({ update(w1, TRUE)
                     : w1 \in {[w EXCEPT !.doc = Replace(w.doc, c.from, c.to, c.insert),
                                         !.head = anchor,
                                         !.reps = Append(@, c),
                                         !.tried =
                                            Append(@, [from |-> from, to |-> to,
                                                       insert |-> insert,
                                                       anchor |-> anchor]),
                                         !.notified =
                                            Append(@, w.rc.isDragging
                                                      \/ w.dom.docMouseMove
                                                      \/ w.dom.docMouseUp)]} })
          : c \in {[from |-> from, to |-> to, insert |-> insert]} })

\* session fields whose baseline zoom is always 100
StartFieldsBaseline100(w, imgElement, clientX, clientY, lineInfo, parsedInfo) ==
    [w EXCEPT
       !.started = TRUE,
       !.rc.activeImgElement = imgElement,
       !.rc.lineInfoAtDragStart = lineInfo,
       !.rc.draggedImageInfo =
            [set |-> TRUE, path |-> parsedInfo.path, altText |-> parsedInfo.altText,
             sourceWidth |-> parsedInfo.specifiedWidth,
             sourceHeight |-> parsedInfo.specifiedHeight],
       !.rc.initialImageWidth =
            IF parsedInfo.specifiedWidth > 0 THEN parsedInfo.specifiedWidth
            ELSE IF Rect.width > 0 THEN Rect.width ELSE 200,
       !.rc.imageCenterX = Rect.left + Rect.width \div 2,
       !.rc.imageCenterY = Rect.top + Rect.height \div 2,
       !.rc.initialDistanceToCenter =
            Distance(clientX - (Rect.left + Rect.width \div 2),
                     clientY - (Rect.top + Rect.height \div 2)),
       !.rc.currentZoomPercent = 100]

\* the fields startResize sets before it looks at the notation
StartFields(w, imgElement, clientX, clientY, lineInfo, parsedInfo) ==
    [w EXCEPT
       !.started = TRUE,
       !.rc.activeImgElement = imgElement,
       !.rc.lineInfoAtDragStart = lineInfo,
       !.rc.draggedImageInfo =
            [set |-> TRUE, path |-> parsedInfo.path, altText |-> parsedInfo.altText,
             sourceWidth |-> parsedInfo.specifiedWidth,
             sourceHeight |-> parsedInfo.specifiedHeight],
       !.rc.initialImageWidth =
            IF parsedInfo.specifiedWidth > 0 THEN parsedInfo.specifiedWidth
            ELSE IF Rect.width > 0 THEN Rect.width ELSE 200,
       !.rc.imageCenterX = Rect.left + Rect.width \div 2,
       !.rc.imageCenterY = Rect.top + Rect.height \div 2,
       !.rc.initialDistanceToCenter =
            Distance(clientX - (Rect.left + Rect.width \div 2),
                     clientY - (Rect.top + Rect.height \div 2)),
       !.rc.currentZoomPercent =
            IF parsedInfo.isHtml /\ parsedInfo.currentZoomPercent # NoNum
            THEN parsedInfo.currentZoomPercent ELSE 100]

\* the upgrade of a Markdown or Wikilink notation (the else branch of startResize)
Upgrade(w, lineInfo, parsedInfo) ==
    dispatch(w, lineInfo.lineFrom + parsedInfo.startIndexInLine,
             lineInfo.lineFrom + parsedInfo.startIndexInLine
                + Len(parsedInfo.originalMatch),
             ImgTag(w.rc.draggedImageInfo, w.rc.currentZoomPercent),
             w.head)

\* the end of startResize
StartDragging(w) ==
    IF w.threw THEN w
    ELSE [w EXCEPT !.rc.isDragging = TRUE,
                   !.dom.docMouseMove = TRUE,
                   !.dom.docMouseUp = TRUE]

\* a startResize that enters the drag before it upgrades the notation
startResizeDragFirst(w, imgElement, clientX, clientY, lineInfo, parsedInfo) ==
    The({ IF parsedInfo.isHtml THEN StartDragging(w1)
          ELSE Upgrade(StartDragging(w1), lineInfo, parsedInfo)
          : w1 \in {StartFields(w, imgElement, clientX, clientY, lineInfo, parsedInfo)} })

\* a startResize that rewrites the notation whatever it is
startResizeAlwaysUpgrades(w, imgElement, clientX, clientY, lineInfo, parsedInfo) ==
    The({ The({ StartDragging(w2) : w2 \in {Upgrade(w1, lineInfo, parsedInfo)} })
          : w1 \in {StartFields(w, imgElement, clientX, clientY, lineInfo, parsedInfo)} })

startResize(w, imgElement, clientX, clientY, lineInfo, parsedInfo) ==
    The({ IF parsedInfo.isHtml THEN StartDragging(w1)
          ELSE The({ StartDragging(w2) : w2 \in {Upgrade(w1, lineInfo, parsedInfo)} })
          : w1 \in {StartFields(w, imgElement, clientX, clientY, lineInfo, parsedInfo)} })

\* the zoom handleDocumentMouseMove computes for a pointer position
\* a zoom that grows towards the centre of the image
NewZoomInverted(rc, clientX, clientY) ==
    Clamp(RoundZoom(rc.currentZoomPercent,
                    rc.initialDistanceToCenter
                        - Distance(clientX - rc.imageCenterX, clientY - rc.imageCenterY)))

NewZoom(rc, clientX, clientY) ==
    Clamp(RoundZoom(rc.currentZoomPercent,
                    Distance(clientX - rc.imageCenterX, clientY - rc.imageCenterY)
                        - rc.initialDistanceToCenter))

\* a move handler that takes the zoom it applies as the baseline of the next move
handleDocumentMouseMoveAccumulates(w, clientX, clientY) ==
    IF \/ ~w.rc.isDragging
       \/ w.rc.activeImgElement = NoImg
       \/ w.rc.lineInfoAtDragStart = NoLineInfo
       \/ ~w.rc.draggedImageInfo.set
       \/ w.rc.draggedImageInfo.path = ""
    THEN resetState(w)
    ELSE [w EXCEPT !.dom.zoom[w.rc.activeImgElement] =
                        ToString(NewZoom(w.rc, clientX, clientY)) \o "%",
                   !.rc.currentZoomPercent = NewZoom(w.rc, clientX, clientY)]

handleDocumentMouseMove(w, clientX, clientY) ==
    IF \/ ~w.rc.isDragging
       \/ w.rc.activeImgElement = NoImg
       \/ w.rc.lineInfoAtDragStart = NoLineInfo
       \/ ~w.rc.draggedImageInfo.set
       \/ w.rc.draggedImageInfo.path = ""
    THEN resetState(w)
    ELSE [w EXCEPT !.dom.zoom[w.rc.activeImgElement] =
                        ToString(NewZoom(w.rc, clientX, clientY)) \o "%"]

\* the zoom handleDocumentMouseUp writes
FinalZoom(w) ==
    Clamp(IF Truthy(ZoomDigits(w.dom.zoom[w.rc.activeImgElement]))
          THEN ParseInt(ZoomDigits(w.dom.zoom[w.rc.activeImgElement]))
          ELSE w.rc.currentZoomPercent)

\* the span handleDocumentMouseUp replaces, [found, from, to]: the tag with the
\* session's path on the current line, else the notation of the line text
\* remembered at drag start when its path is the session's path
LocateSpan(w) ==
    The({ IF matchForUpdate.ok
          THEN [found |-> TRUE,
                from |-> w.rc.lineInfoAtDragStart.lineFrom + matchForUpdate.index,
                to |-> w.rc.lineInfoAtDragStart.lineFrom + matchForUpdate.end]
          ELSE The({ IF originalSyntaxInfo.ok
                        /\ originalSyntaxInfo.path = w.rc.draggedImageInfo.path
                     THEN [found |-> TRUE,
                           from |-> w.rc.lineInfoAtDragStart.lineFrom
                                       + originalSyntaxInfo.startIndexInLine,
                           to |-> w.rc.lineInfoAtDragStart.lineFrom
                                     + originalSyntaxInfo.startIndexInLine
                                     + Len(originalSyntaxInfo.originalMatch)]
                     ELSE [found |-> FALSE, from |-> -1, to |-> -1]
                     : originalSyntaxInfo \in
                         {parseImageSyntaxFromLine(w.rc.lineInfoAtDragStart.lineText)} })
          : matchForUpdate \in
              {imgTagToReplaceRegex(
                  LineAt(w.doc, w.rc.lineInfoAtDragStart.lineFrom).text,
                  w.rc.draggedImageInfo.path)} })

\* a release handler without the guard on the session
handleDocumentMouseUpNoGuard(w) ==
    IF LineAtThrows(w.doc, w.rc.lineInfoAtDragStart.lineFrom)
    THEN [w EXCEPT !.threw = TRUE]
    ELSE The({ IF ~span.found THEN resetState(w)
               ELSE The({ IF w2.threw THEN w2 ELSE resetState(w2)
                          : w2 \in {dispatch(w, span.from, span.to,
                                             ImgTag(w.rc.draggedImageInfo, FinalZoom(w)),
                                             w.head)} })
               : span \in {LocateSpan(w)} })

handleDocumentMouseUp(w) ==
    IF \/ ~w.rc.isDragging
       \/ w.rc.activeImgElement = NoImg
       \/ w.rc.lineInfoAtDragStart = NoLineInfo
       \/ ~w.rc.draggedImageInfo.set
    THEN resetState(w)
    ELSE IF LineAtThrows(w.doc, w.rc.lineInfoAtDragStart.lineFrom)
    THEN [w EXCEPT !.threw = TRUE]
    ELSE The({ IF ~span.found THEN resetState(w)
               ELSE The({ IF w2.threw THEN w2 ELSE resetState(w2)
                          : w2 \in {dispatch(w, span.from, span.to,
                                             ImgTag(w.rc.draggedImageInfo, FinalZoom(w)),
                                             w.head)} })
               : span \in {LocateSpan(w)} })

(***************************************************************************)
(* ImageHoverController and ImageHoverViewPlugin                           *)
(***************************************************************************)
clearActiveImageState(w) ==
    The({ IF w1.rc.isDragging THEN resetState(w1) ELSE w1
          : w1 \in { IF w.hc.lastHoveredImg # NoImg
                     THEN [w EXCEPT !.dom.cursor[w.hc.lastHoveredImg] = "",
                                    !.dom.imgListeners[w.hc.lastHoveredImg] = FALSE,
                                    !.hc.unlisteners = FALSE,
                                    !.hc.lastHoveredImg = NoImg]
                     ELSE w } })

\* target: the image under the pointer, NoImg for another element of the editor
handleContainerMouseMove(w, target) ==
    IF w.rc.isDragging THEN w
    ELSE IF target # NoImg
    THEN IF w.hc.lastHoveredImg # target
         THEN [clearActiveImageState(w) EXCEPT !.hc.lastHoveredImg = target,
                                               !.hc.unlisteners = TRUE,
                                               !.dom.imgListeners[target] = TRUE]
         ELSE w
    ELSE IF w.hc.lastHoveredImg # NoImg THEN clearActiveImageState(w) ELSE w

handleContainerMouseLeave(w, relatedTargetIsOutside) ==
    IF w.rc.isDragging THEN w
    ELSE IF relatedTargetIsOutside THEN clearActiveImageState(w) ELSE w

sensitivity == 8

CursorStyle(x, y) ==
    LET onLeftEdge == x < sensitivity
        onRightEdge == x > Rect.width - sensitivity
        onTopEdge == y < sensitivity
        onBottomEdge == y > Rect.height - sensitivity
    IN  IF onTopEdge /\ onLeftEdge THEN "nwse-resize"
        ELSE IF onTopEdge /\ onRightEdge THEN "nesw-resize"
        ELSE IF onBottomEdge /\ onLeftEdge THEN "nesw-resize"
        ELSE IF onBottomEdge /\ onRightEdge THEN "nwse-resize"
        ELSE IF onLeftEdge \/ onRightEdge THEN "ew-resize"
        ELSE IF onTopEdge \/ onBottomEdge THEN "ns-resize"
        ELSE "grab"

handleImageSpecificMouseMove(w, imgElement, clientX, clientY) ==
    IF w.rc.isDragging THEN w
    ELSE [w EXCEPT !.dom.cursor[imgElement] =
                        CursorStyle(clientX - Rect.left, clientY - Rect.top)]

handleImageSpecificMouseLeave(w, imgElement) ==
    IF ~w.rc.isDragging THEN [w EXCEPT !.dom.cursor[imgElement] = ""] ELSE w

\* cursorStyle.includes("-resize")
IncludesResize(cursorStyle) ==
    cursorStyle \in {"nwse-resize", "nesw-resize", "ew-resize", "ns-resize"}

\* pos: what view.posAtDOM(element) gives, -1 when it throws
getLineInfoFromElement(d, pos) ==
    IF pos < 0 \/ LineAtThrows(d, pos) THEN NoLineInfo
    ELSE The({ [pos |-> pos, lineText |-> line.text, lineFrom |-> line.from,
                lineTo |-> line.to]
               : line \in {LineAt(d, pos)} })

\* a press that remembers the line before it knows that a notation is parsed
handleImageSpecificMouseDownKeepsLine(w, imgElement, clientX, clientY, pos) ==
    IF ~IncludesResize(w.dom.cursor[imgElement]) THEN w
    ELSE The({ IF lineInfo = NoLineInfo THEN w
               ELSE The({ IF ~parsedInfo.ok
                          THEN [w EXCEPT !.rc.lineInfoAtDragStart = lineInfo]
                          ELSE startResize(w, imgElement, clientX, clientY,
                                           lineInfo, parsedInfo)
                          : parsedInfo \in {parseImageSyntaxFromLine(lineInfo.lineText)} })
               : lineInfo \in {getLineInfoFromElement(w.doc, pos)} })

handleImageSpecificMouseDown(w, imgElement, clientX, clientY, pos) ==
    IF ~IncludesResize(w.dom.cursor[imgElement]) THEN w
    ELSE The({ IF lineInfo = NoLineInfo THEN w
               ELSE The({ IF ~parsedInfo.ok THEN w
                          ELSE startResize(w, imgElement, clientX, clientY,
                                           lineInfo, parsedInfo)
                          : parsedInfo \in {parseImageSyntaxFromLine(lineInfo.lineText)} })
               : lineInfo \in {getLineInfoFromElement(w.doc, pos)} })

\* a teardown that detaches the listeners of the editor and of the document only
destroyKeepsHover(w) ==
    [w EXCEPT !.dom.container = FALSE,
              !.dom.docMouseMove = FALSE, !.dom.docMouseUp = FALSE]

\* ImageHoverViewPlugin.destroy, ImageHoverController.destroy and
\* ImageResizeController.destroy
destroy(w) ==
    [clearActiveImageState([w EXCEPT !.dom.container = FALSE])
        EXCEPT !.dom.docMouseMove = FALSE, !.dom.docMouseUp = FALSE]

(***************************************************************************)
(* The state machine: one plugin instance on one editor                    *)
(***************************************************************************)
VARIABLES
    doc,      \* view.state.doc, as one text with "\n" between lines
    head,     \* view.state.selection.main.head
    rc,       \* the fields of the ImageResizeController
    hc,       \* the fields of the ImageHoverController
    dom,      \* image elements and listeners
    ev,       \* the last event handled: its kind, the replacements it dispatched,
              \* the replacements it asked for with the selection it passed,
              \* for each of them whether the controller was dragging or
              \* listening to the document when the plugin was notified of it,
              \* whether an exception left its handler, whether the controller
              \* was dragging before it, and the document before it if the
              \* handler dispatched or threw
    ses,      \* what the last call of startResize was given, and what has
              \* happened to its session since
    edits,    \* number of edits made from outside the plugin
    arms,     \* number of presses with a resize cursor made while no drag
              \* was in progress
    call      \* the last call of the parser made on its own: the line it was
              \* given, what the line was rendered from if it was rendered,
              \* the record returned, and the tag rendered again from the
              \* record

vars == <<doc, head, rc, hc, dom, ev, ses, edits, arms, call>>

MaxEdits == 1

MaxArms == 1

\* the documents the editor is opened on, and where the cursor is
InitDocs ==
    { [doc |-> "![cap](img.png)", head |-> 0],
      [doc |-> "![[pic.jpg|200x100]]", head |-> 0],
      [doc |-> "<img src=\"x.png\" style=\"zoom: 80%;\">", head |-> 0],
      [doc |-> "Intro\n![a|0x50](p.png)", head |-> 0],
      [doc |-> "<img src=\"a.png\"> ![x](a.png)", head |-> 0],
      [doc |-> "![e]( )", head |-> 0],
      [doc |-> "<img alt=\"k\" src=\"y.png\" class=\"c\" style=\"zoom: 20%;\">",
       head |-> 54],
      [doc |-> "![](                                    q)", head |-> 42],
      [doc |-> "![Alt Text|300x200](Image.jpg)", head |-> 0],
      [doc |-> "<img src=\"z.png\" style=\"zoom: 600%;\">", head |-> 0] }

\* pointer positions over an image: the middle of its right edge
PressPoints == { <<340, 150>> }

\* pointer positions of a move during a drag
MovePoints == { <<590, 150>>, <<220, 150>>, <<3220, 150>> }

\* the positions at which an image notation begins
ImgStarts(d) ==
    { i \in 0..(Len(d) - 1) : At(d, i, "![") \/ AtCI(d, i, "<img") }

\* what view.posAtDOM can give for an image element: the start of a notation,
\* the start of the document, or -1 for an exception
PosAtDOM(d) == ImgStarts(d) \cup {0, -1}

\* the style.zoom of the image element the editor renders for the document
RenderedZoom(d) ==
    IF ImgStarts(d) = {} THEN ""
    ELSE The({ IF info.ok /\ info.isHtml /\ info.currentZoomPercent # NoNum
               THEN ToString(info.currentZoomPercent) \o "%" ELSE ""
               : info \in {parseImageSyntaxFromLine(LineAt(d, Min(ImgStarts(d))).text)} })

\* the edits made from outside the plugin: a line inserted at the start, a
\* line deleted from where an image notation begins, the first two lines joined
ExternalEdits(d) ==
    { [from |-> 0, to |-> 0, insert |-> "x\n"] }
    \cup { [from |-> i, to |-> LineTo(d, i), insert |-> ""] : i \in ImgStarts(d) }
    \cup { [from |-> i, to |-> i + 1, insert |-> ""]
           : i \in { j \in 0..(Len(d) - 1) :
                       CharAt(d, j) = "\n" /\ \A k \in 0..(j - 1) : CharAt(d, k) # "\n" } }

W == [doc |-> doc, head |-> head, rc |-> rc, hc |-> hc, dom |-> dom,
      reps |-> << >>, threw |-> FALSE, started |-> FALSE, notified |-> << >>,
      tried |-> << >>]

\* no call has been made
NoCall ==
    [fn |-> "none", lineText |-> "", info |-> NoImageInfo, zoom |-> NoNum,
     result |-> NoParse, again |-> ""]

NoSession ==
    [armed |-> FALSE, pos |-> -1, lineInfo |-> NoLineInfo, parsedInfo |-> NoParse,
     docAtArm |-> "", armTag |-> "", edited |-> FALSE, preview |-> NoNum]

Init ==
    /\ \E i \in InitDocs : doc = i.doc /\ head = i.head
    /\ rc = [isDragging |-> FALSE, initialImageWidth |-> 0, currentZoomPercent |-> 100,
             lineInfoAtDragStart |-> NoLineInfo, draggedImageInfo |-> NoImageInfo,
             imageCenterX |-> 0, imageCenterY |-> 0, initialDistanceToCenter |-> 0,
             activeImgElement |-> NoImg]
    /\ hc = [lastHoveredImg |-> NoImg, unlisteners |-> FALSE]
    /\ dom = [cursor |-> [e \in Imgs |-> ""],
              zoom |-> [e \in Imgs |-> RenderedZoom(doc)],
              inBody |-> [e \in Imgs |-> TRUE],
              imgListeners |-> [e \in Imgs |-> FALSE],
              docMouseMove |-> FALSE, docMouseUp |-> FALSE, container |-> TRUE]
    /\ ev = [kind |-> "init", reps |-> << >>, tried |-> << >>, notified |-> << >>,
             threw |-> FALSE,
             dragging |-> FALSE,
             before |-> ""]
    /\ ses = NoSession
    /\ edits = 0
    /\ arms = 0
    /\ call = NoCall

\* the handler has run and left the world w
Handled(kind, w) ==
    /\ doc' = w.doc
    /\ head' = w.head
    /\ rc' = w.rc
    /\ hc' = w.hc
    /\ dom' = w.dom
    /\ ev' = [kind |-> kind, reps |-> w.reps, tried |-> w.tried,
              notified |-> w.notified,
              threw |-> w.threw,
              dragging |-> rc.isDragging,
              before |-> IF w.reps # << >> \/ w.threw THEN doc ELSE ""]
    /\ call' = call

ContainerMouseMove ==
    /\ dom.container
    /\ \E target \in Imgs \cup {NoImg} :
          /\ target # NoImg => dom.inBody[target]
          /\ \E w \in {handleContainerMouseMove(W, target)} : Handled("hover", w)
    /\ UNCHANGED <<ses, edits, arms>>

ContainerMouseLeave ==
    /\ dom.container
    /\ \E relatedTargetIsOutside \in {TRUE} :
       \E w \in {handleContainerMouseLeave(W, relatedTargetIsOutside)} :
          Handled("hover", w)
    /\ UNCHANGED <<ses, edits, arms>>

ImgMouseMove ==
    /\ \E e \in Imgs, pt \in PressPoints :
          /\ dom.imgListeners[e] /\ dom.inBody[e]
          /\ \E w \in {handleImageSpecificMouseMove(W, e, pt[1], pt[2])} :
                Handled("hover", w)
    /\ UNCHANGED <<ses, edits, arms>>

ImgMouseLeave ==
    /\ \E e \in Imgs :
          /\ dom.imgListeners[e] /\ dom.inBody[e]
          /\ \E w \in {handleImageSpecificMouseLeave(W, e)} : Handled("hover", w)
    /\ UNCHANGED <<ses, edits, arms>>

\* the session record of a press that calls startResize and leaves the world w
Pressed(pos, w) ==
    [armed |-> TRUE, pos |-> pos, lineInfo |-> w.rc.lineInfoAtDragStart,
     parsedInfo |-> parseImageSyntaxFromLine(w.rc.lineInfoAtDragStart.lineText),
     docAtArm |-> doc,
     armTag |-> IF w.reps # << >> THEN w.reps[1].insert ELSE "",
     edited |-> FALSE, preview |-> NoNum]

\* a press on an image; the cursor is the one the last move over the image
\* chose, or the one a handler has set since
ImgMouseDown ==
    /\ \E e \in Imgs, pt \in PressPoints :
          /\ dom.imgListeners[e] /\ dom.inBody[e]
          /\ dom.cursor[e] \in {CursorStyle(pt[1] - Rect.left, pt[2] - Rect.top),
                                "", "default"}
          /\ IncludesResize(dom.cursor[e]) /\ ~rc.isDragging => arms < MaxArms
          /\ arms' = IF IncludesResize(dom.cursor[e]) /\ ~rc.isDragging
                     THEN arms + 1 ELSE arms
          /\ \E pos \in PosAtDOM(doc) :
             \E w \in {handleImageSpecificMouseDown(W, e, pt[1], pt[2], pos)} :
                IF w.started
                THEN Handled("arm", w) /\ ses' = Pressed(pos, w)
                ELSE Handled("press", w) /\ ses' = ses
    /\ UNCHANGED edits

DocMouseMove ==
    /\ dom.docMouseMove
    /\ \E pt \in MovePoints :
          /\ \E w \in {handleDocumentMouseMove(W, pt[1], pt[2])} : Handled("move", w)
          /\ ses' = IF rc.isDragging /\ rc'.isDragging
                    THEN [ses EXCEPT !.preview = NewZoom(rc, pt[1], pt[2])]
                    ELSE ses
    /\ UNCHANGED <<edits, arms>>

DocMouseUp ==
    /\ dom.docMouseUp
    /\ \E w \in {handleDocumentMouseUp(W)} : Handled("up", w)
    /\ UNCHANGED <<ses, edits, arms>>

\* an edit from outside the plugin during a drag; the selection moves with the
\* text and the view plugin is notified
ExternalEdit ==
    /\ edits < MaxEdits
    /\ rc.isDragging
    /\ \E c \in ExternalEdits(doc) :
       \E w \in {[W EXCEPT !.doc = Replace(doc, c.from, c.to, c.insert),
                          !.head = MapPos(head, c.from, c.to, c.insert)]} :
       \E w2 \in {IF dom.container THEN update(w, TRUE) ELSE w} :
          Handled("edit", w2)
    /\ edits' = edits + 1
    /\ ses' = [ses EXCEPT !.edited = TRUE]
    /\ UNCHANGED arms

\* the editor redraws the image that is being dragged: its element leaves the
\* document
Rerender ==
    /\ rc.isDragging
    /\ \E e \in Imgs :
          /\ dom.inBody[e]
          /\ Handled("redraw", [W EXCEPT !.dom.inBody[e] = FALSE])
    /\ UNCHANGED <<ses, edits, arms>>

Destroy ==
    /\ dom.container
    /\ \E w \in {destroy(W)} : Handled("destroy", w)
    /\ UNCHANGED <<ses, edits, arms>>

Next ==
    \/ ContainerMouseMove
    \/ ContainerMouseLeave
    \/ ImgMouseMove
    \/ ImgMouseLeave
    \/ ImgMouseDown
    \/ DocMouseMove
    \/ DocMouseUp
    \/ ExternalEdit
    \/ Rerender
    \/ Destroy

Spec == Init /\ [][Next]_vars

(***************************************************************************)
(* The handlers of the document's events, called once more after the       *)
(* session has been cleared: the plugin with an event that arrives late.   *)
(***************************************************************************)
\* a session has been started and has been cleared since
SessionCleared ==
    /\ ses.armed /\ ~rc.isDragging
    /\ rc.activeImgElement = NoImg /\ rc.lineInfoAtDragStart = NoLineInfo
    /\ rc.draggedImageInfo = NoImageInfo

LateDocMouseMove ==
    /\ SessionCleared
    /\ \E pt \in MovePoints :
       \E w \in {handleDocumentMouseMove(W, pt[1], pt[2])} : Handled("move", w)
    /\ UNCHANGED <<ses, edits, arms>>

LateDocMouseUp ==
    /\ SessionCleared
    /\ \E w \in {handleDocumentMouseUp(W)} : Handled("up", w)
    /\ UNCHANGED <<ses, edits, arms>>

LateNext ==
    \/ Next
    \/ LateDocMouseMove
    \/ LateDocMouseUp

LateSpec == Init /\ [][LateNext]_vars

(***************************************************************************)
(* The parser and the rendered tag on their own: parseImageSyntaxFromLine  *)
(* is called once, on a line of text or on the tag rendered from a path,   *)
(* an alt text, a width, a height and a zoom.                              *)
(***************************************************************************)
\* the suffixes of the wikilinks `![[a.png|suffix]]` the parser is given
Suffixes ==
    {"150", "150x80", "caption", "", "0", "007", "150x", "x80", "150px",
     " 150", "150 ", "150 x80", "150x80x3", "my 150x80", "150x80 wide", "1x"}

WikilinkOf(suffix) == "![[a.png|" \o suffix \o "]]"

\* lines on which more than one grammar can match, in both orders
MixedLines ==
    {"<img src=\"h.png\"> ![m](m.png)",
     "![m](m.png) <img src=\"h.png\">",
     "![[w.png]] ![m](m.png)",
     "![m](m.png) ![[w.png]]",
     "![[w.png]] and ![m|30](m.png)",
     "<img src=\"h.png\"> ![[w.png|40]]",
     "![[w.png|40]] <img src=\"h.png\">",
     "<img src=\"h.png\" style=\"zoom: 50%;\"> ![[w.png]] ![m](m.png)"}

\* lines of one notation, of none, and lines whose path is blank
PlainLines ==
    {"![cap](img.png)", "![cap|120x60](img.png)", "![[pic.jpg]]",
     "<img src=\"h.png\" alt=\"a\" style=\"width: 20px; zoom: 70%;\">",
     "<img src=h.png>", "<img alt=\"a\">", "no image here", "",
     "![e]( )", "![]( \t)", "![[ ]]", "![[ |40]]", "<img src=\" \">",
     "<img src=\"\">", "<img src=''>", "![a|b|c](p.png)", "![[a.png|alt|100]]",
     "![ cap ](img.png)", "![cap]( img.png )", "![[ pic.jpg | wide ]]",
     "<img src=\" h.png \" alt=\" a \">", "[note] ![b](c.png)",
     "![draft] see ![b](c.png)"}

\* HTML tags with a src and a style that holds `zoom: 50%`: with and without a
\* width, a height and an alt attribute, the alt before and after the style
StyledTags ==
    {"<img src=\"a.png\" style=\"zoom: 50%;\">",
     "<img src=\"a.png\" style=\"width: 20px; zoom: 50%;\">",
     "<img src=\"a.png\" style=\"zoom: 50%; height: 30px;\">",
     "<img src=\"a.png\" style=\"width: 20px; height: 30px; zoom: 50%;\">",
     "<img src=\"a.png\" alt=\"x\" style=\"zoom: 50%;\">",
     "<img src=\"a.png\" alt=\"x\" style=\"height: 30px; zoom: 50%; width: 20px;\">",
     "<img src=\"a.png\" alt=\"\" class=\"c\" style=\"zoom: 50%;\">",
     "<img src=\"a.png\" style=\"zoom: 50%;\" alt=\"x\">",
     "<img src=\"a.png\" style=\"width: 20px; zoom: 50%;\" alt=\"x\">",
     "<img alt=\"x\" src=\"a.png\" style=\"zoom: 50%;\">"}

Lines == MixedLines \cup PlainLines \cup StyledTags \cup { WikilinkOf(x) : x \in Suffixes }

\* what the tag is rendered from
Paths == {"img.png", "my pic.png", "it's.png"}

Alts == {Undef, "", "cap", "a\"b<c>&'d"}

Widths == {NoNum, 0, 150}

Heights == {NoNum, 0, 80}

Zooms == {10, 137, 500}

\* args.lineText parsed
ParseLine ==
    /\ call.fn = "none"
    /\ \E lineText \in Lines :
          call' = [fn |-> "parse", lineText |-> lineText, info |-> NoImageInfo,
                   zoom |-> NoNum, result |-> parseImageSyntaxFromLine(lineText),
                   again |-> ""]
    /\ UNCHANGED <<doc, head, rc, hc, dom, ev, ses, edits, arms>>

\* the tag a gesture writes at release when it was armed on the record
\* parsedInfo and ends at the zoom finalZoomPercent
TagOfGesture(parsedInfo, finalZoomPercent) ==
    ImgTag([set |-> TRUE, path |-> parsedInfo.path, altText |-> parsedInfo.altText,
            sourceWidth |-> parsedInfo.specifiedWidth,
            sourceHeight |-> parsedInfo.specifiedHeight], finalZoomPercent)

\* the tag rendered from info and zoom, parsed as the next gesture parses it,
\* and the tag that gesture writes when it ends at the same zoom
RenderThenParse ==
    /\ call.fn = "none"
    /\ \E path \in Paths, altText \in Alts, w \in Widths, h \in Heights, z \in Zooms :
       \E info \in {[set |-> TRUE, path |-> path, altText |-> altText,
                     sourceWidth |-> w, sourceHeight |-> h]} :
       \E newTag \in {ImgTag(info, z)} :
       \E parsedInfo \in {parseImageSyntaxFromLine(newTag)} :
          call' = [fn |-> "render", lineText |-> newTag, info |-> info, zoom |-> z,
                   result |-> parsedInfo,
                   again |-> IF parsedInfo.ok THEN TagOfGesture(parsedInfo, z) ELSE ""]
    /\ UNCHANGED <<doc, head, rc, hc, dom, ev, ses, edits, arms>>

ParseNext ==
    \/ ParseLine
    \/ RenderThenParse

ParseSpec == Init /\ [][ParseNext]_vars

(***************************************************************************)
(* The claims                                                              *)
(***************************************************************************)
\* the document before the last event
DocBefore == IF ev.reps # << >> \/ ev.threw THEN ev.before ELSE doc

\* the span of the notation parsed at arm, in the document of that time
ArmFrom == ses.lineInfo.lineFrom + ses.parsedInfo.startIndexInLine

ArmTo == ArmFrom + Len(ses.parsedInfo.originalMatch)

\* the path, alt text, width and height parsed at arm
Snapshot ==
    [path |-> ses.parsedInfo.path, altText |-> ses.parsedInfo.altText,
     sourceWidth |-> ses.parsedInfo.specifiedWidth,
     sourceHeight |-> ses.parsedInfo.specifiedHeight]

\* C1: a press that arms on a line whose parsed notation is Markdown or Wikilink
\* issues exactly one replacement, over the span of the parsed notation,
\* inserting the tag rendered from the parsed path, alt text, width and height
\* with zoom 100, and the text before and after the span stays as it was;
\* "![cap](img.png)" and "![[pic.jpg|200x100]]" become the tags the
\* specification gives for them.
C1_ArmUpgrade ==
    ev.kind = "arm" /\ ~ses.parsedInfo.isHtml =>
        /\ ev.reps = << [from |-> ArmFrom, to |-> ArmTo, insert |-> ImgTag(Snapshot, 100)] >>
        /\ doc = Slice(ses.docAtArm, 0, ArmFrom) \o ImgTag(Snapshot, 100)
                    \o Slice(ses.docAtArm, ArmTo, Len(ses.docAtArm))
        /\ ses.docAtArm = "![cap](img.png)" =>
              doc = "<img src=\"img.png\" alt=\"cap\" style=\"zoom: 100%;\">"
        /\ ses.docAtArm = "![[pic.jpg|200x100]]" =>
              doc = "<img src=\"pic.jpg\" alt=\"\" style=\"width: 200px; height: 100px; zoom: 100%;\">"

\* the document a commit of the session is to leave when nothing but the
\* plugin has changed the document: the document of arm time with the parsed
\* notation replaced by the tag rendered with zoom z
Committed(z) ==
    Slice(ses.docAtArm, 0, ArmFrom) \o ImgTag(Snapshot, z)
        \o Slice(ses.docAtArm, ArmTo, Len(ses.docAtArm))

\* C2: when no edit but the plugin's own came between arm and release and a
\* move event has previewed a zoom, the release leaves, in place of the image's
\* notation, the tag rendered with the zoom last previewed; for
\* "![cap](img.png)" and a last preview of 150 that is the tag with zoom 150%.
C2_CommitWritesPreview ==
    ev.kind = "up" /\ ev.dragging /\ ~ses.edited /\ ses.preview # NoNum =>
        /\ doc = Committed(ses.preview)
        /\ ses.docAtArm = "![cap](img.png)" /\ ses.preview = 150 =>
              doc = "<img src=\"img.png\" alt=\"cap\" style=\"zoom: 150%;\">"

\* C3: when an edit from outside has deleted the image reference after the arm,
\* so that the document holds no image notation at the release, the release
\* issues no replacement, leaves the document as the edit left it and raises
\* no exception.
C3_AbortOnMissingAnchor ==
    ev.kind = "up" /\ ev.dragging /\ ses.edited /\ ImgStarts(DocBefore) = {} =>
        ev.reps = << >> /\ ~ev.threw /\ doc = DocBefore

\* text is one complete image notation with the given path: the parser matches
\* it from its first to its last character
IsNotation(text, path) ==
    The({ info.ok /\ info.startIndexInLine = 0 /\ info.originalMatch = text
                  /\ info.path = path
          : info \in {parseImageSyntaxFromLine(text)} })

\* C4: every replacement issued at release covers, in the document of that
\* moment, exactly one complete image notation whose path is the session's
\* path, also after edits between arm and release.
C4_NoPartialRewrite ==
    ev.kind = "up" /\ ev.reps # << >> =>
        /\ Len(ev.reps) = 1
        /\ IsNotation(Slice(ev.before, ev.reps[1].from, ev.reps[1].to), ses.parsedInfo.path)

\* C5: every release handled while dragging ends with the controller not
\* dragging, the session fields cleared and both document listeners detached,
\* and no exception leaves the handler.
C5_ReleaseEndsSession ==
    ev.kind = "up" /\ ev.dragging =>
        /\ ~ev.threw
        /\ ~rc.isDragging
        /\ rc.activeImgElement = NoImg
        /\ rc.lineInfoAtDragStart = NoLineInfo
        /\ rc.draggedImageInfo = NoImageInfo
        /\ ~dom.docMouseMove /\ ~dom.docMouseUp

\* the fields of a session: tracked image, line snapshot, source snapshot,
\* baseline zoom, image center, baseline distance
SessionFields(r) ==
    << r.activeImgElement, r.lineInfoAtDragStart, r.draggedImageInfo,
       r.currentZoomPercent, r.imageCenterX, r.imageCenterY,
       r.initialDistanceToCenter >>

\* C6: while the controller is dragging no press arms again, and as long as it
\* stays dragging the session fields keep the values written at arm.
C6_OneSession ==
    [][rc.isDragging =>
          /\ ev'.kind # "arm"
          /\ rc'.isDragging => SessionFields(rc') = SessionFields(rc)]_vars

\* C7: between event handlers the document's mousemove and mouseup listeners
\* are attached if and only if the controller is dragging.
C7_ListenerPairing ==
    /\ dom.docMouseMove <=> rc.isDragging
    /\ dom.docMouseUp <=> rc.isDragging

\* C7 witness: a handler has ended a drag and both listeners are detached
C7_Witness ==
    /\ ev.dragging /\ ev.kind \in {"up", "edit", "move", "destroy"}
    /\ ~rc.isDragging /\ ~dom.docMouseMove /\ ~dom.docMouseUp

\* C8: no move event issues a replacement or changes the document, and a move
\* while dragging changes nothing but the style.zoom of the tracked image.
C8_MoveOnlyPreviews ==
    [][ev'.kind = "move" =>
          /\ ev'.reps = << >> /\ doc' = doc
          /\ rc.isDragging =>
                /\ head' = head /\ rc' = rc /\ hc' = hc
                /\ dom' = [dom EXCEPT !.zoom[rc.activeImgElement] =
                                          dom'.zoom[rc.activeImgElement]]]_vars

\* C9: the zoom a move event applies to the tracked image during a drag is a
\* whole number of percent between 10 and 500.
C9_ZoomClamped ==
    ev.kind = "move" /\ ev.dragging /\ rc.isDragging =>
        /\ ses.preview \in 10..500
        /\ dom.zoom[rc.activeImgElement] = ToString(ses.preview) \o "%"

\* C9 witness: a move far from the image has applied the upper limit
C9_Witness ==
    /\ ev.kind = "move" /\ ev.dragging /\ rc.isDragging
    /\ dom.zoom[rc.activeImgElement] = "500%"

\* where the last "zoom: " of a tag begins
ZoomTermStart(tag) ==
    CHOOSE k \in 0..Len(tag) :
        /\ At(tag, k, "zoom: ")
        /\ \A j \in (k + 1)..Len(tag) : ~At(tag, j, "zoom: ")

\* C10: the tag written at release has a width term and a height term exactly
\* when a width and a height were parsed at arm, with the parsed values, and it
\* differs from the tag written at arm in the zoom term only.
C10_WidthHeightSurvive ==
    ev.kind = "up" /\ ev.reps # << >> =>
        /\ StyleNum(ev.reps[1].insert, "width:", "px") = ses.parsedInfo.specifiedWidth
        /\ StyleNum(ev.reps[1].insert, "height:", "px") = ses.parsedInfo.specifiedHeight
        /\ ses.armTag # "" =>
              Slice(ev.reps[1].insert, 0, ZoomTermStart(ev.reps[1].insert))
                  = Slice(ses.armTag, 0, ZoomTermStart(ses.armTag))

C12_AbortOnDetachedImage ==
    ev.kind = "edit" /\ ev.dragging /\ dom.container
      /\ (\A e \in Imgs : ~dom.inBody[e]) =>
        /\ ~rc.isDragging
        /\ rc.activeImgElement = NoImg
        /\ rc.lineInfoAtDragStart = NoLineInfo
        /\ rc.draggedImageInfo = NoImageInfo
        /\ ~dom.docMouseMove /\ ~dom.docMouseUp
        /\ ev.reps = << >> /\ ~ev.threw

\* C12 witness: an edit has been notified during a drag whose image had been
\* redrawn after a preview
C12_Witness ==
    /\ ev.kind = "edit" /\ ev.dragging /\ dom.container
    /\ \A e \in Imgs : ~dom.inBody[e]
    /\ ses.preview # NoNum /\ ~rc.isDragging

\* the zoom a style.zoom value puts into effect: no value means 100
ZoomValue(style) ==
    IF Truthy(ZoomDigits(style)) THEN ParseInt(ZoomDigits(style)) ELSE 100

\* C14: whenever a drag has ended without a replacement, the zoom in effect on
\* an image that is still in the document is the zoom the text records for it.
C14_FailureDiscardsPreview ==
    ev.dragging /\ ~rc.isDragging /\ ev.reps = << >> /\ ~ev.threw
      /\ ImgStarts(doc) # {} =>
        \A e \in Imgs :
            dom.inBody[e] => ZoomValue(dom.zoom[e]) = ZoomValue(RenderedZoom(doc))

\* C15: a press that does not reach startResize, because the image is mapped
\* to no position or no notation is parsed on its line, changes neither the
\* document nor the selection nor a field of the controllers nor an element
\* nor a listener; it issues no replacement and raises no exception.
C15_FailedArmNoEffect ==
    [][ev'.kind = "press" =>
          /\ doc' = doc /\ head' = head /\ rc' = rc /\ hc' = hc /\ dom' = dom
          /\ ev'.reps = << >> /\ ~ev'.threw]_vars

\* C15 witness: a press with a resize cursor on an idle controller has failed
\* on a line without a notation, and the controller is idle with no session
\* field and no document listener
C15_Witness ==
    /\ ev.kind = "press" /\ ~ev.dragging
    /\ \E e \in Imgs : IncludesResize(dom.cursor[e])
    /\ doc = "Intro\n![a|0x50](p.png)"
    /\ ~rc.isDragging /\ rc.lineInfoAtDragStart = NoLineInfo
    /\ ~dom.docMouseMove /\ ~dom.docMouseUp

\* C16: after the view plugin is destroyed, in whatever state, the controller
\* is not dragging, the document listeners, the listeners on the images and the
\* listeners on the editor are detached, and the teardown issued no replacement.
C16_TeardownReleases ==
    ev.kind = "destroy" =>
        /\ ~rc.isDragging
        /\ ~dom.docMouseMove /\ ~dom.docMouseUp /\ ~dom.container
        /\ \A e \in Imgs : ~dom.imgListeners[e]
        /\ ev.reps = << >> /\ ~ev.threw

\* C16 witness: the plugin has been destroyed during a drag
C16_Witness ==
    /\ ev.kind = "destroy" /\ ev.dragging /\ ~rc.isDragging
    /\ ses.preview # NoNum

\* C13: a move or release event handled when the controller is not dragging,
\* after the session has been cleared, changes neither the document nor the
\* style.zoom of an image, leaves the controller not dragging, issues no
\* replacement and raises no exception.
C13_LateEventsAreNoOps ==
    [][ev'.kind \in {"move", "up"} /\ ~rc.isDragging =>
          /\ doc' = doc /\ dom'.zoom = dom.zoom
          /\ ~rc'.isDragging
          /\ ev'.reps = << >> /\ ~ev'.threw]_vars

\* C13 witness: a release has been handled after a drag with a preview was
\* ended by an edit notified for a redrawn image
C13_Witness ==
    /\ ev.kind = "up" /\ ~ev.dragging /\ ~rc.isDragging
    /\ ses.armed /\ ses.edited /\ ses.preview # NoNum /\ ev.reps = << >>

\* C17: on every line the Markdown grammar matches, the parser returns the
\* Markdown record, whether or not a wikilink or an HTML tag stands on the line
\* and wherever they stand; on every line the Markdown grammar does not match
\* and the Wikilink grammar matches, it returns the Wikilink record, also when
\* an HTML tag stands earlier on the line.
C17_ParserPrecedence ==
    call.fn = "parse" =>
        \E md \in {parseMarkdown(call.lineText)} :
            /\ md.ok => call.result = md /\ ~call.result.isHtml
            /\ ~md.ok =>
                  \E wl \in {parseWikilink(call.lineText)} :
                      wl.ok => call.result = wl /\ ~call.result.isHtml
            /\ call.lineText = "<img src=\"h.png\"> ![m](m.png)" =>
                  /\ call.result.originalMatch = "![m](m.png)"
                  /\ call.result.startIndexInLine = 18
            /\ call.lineText = "<img src=\"h.png\"> ![[w.png|40]]" =>
                  /\ call.result.originalMatch = "![[w.png|40]]"
                  /\ call.result.specifiedWidth = 40

\* C17 witness: a line with an HTML tag first and a Markdown image after it has
\* been parsed as the Markdown image
C17_Witness ==
    /\ call.fn = "parse"
    /\ call.lineText = "<img src=\"h.png\"> ![m](m.png)"
    /\ parseHtml(call.lineText).ok /\ parseHtml(call.lineText).startIndexInLine = 0
    /\ call.result.ok /\ call.result.path = "m.png" /\ ~call.result.isHtml

\* C18: parsing the tag rendered from a path, an alt text, a width, a height
\* and a zoom returns a record with that width, that height, that zoom and that
\* path.
C18_RenderParseRoundTrip ==
    call.fn = "render" =>
        /\ call.result.ok
        /\ call.result.specifiedWidth = call.info.sourceWidth
        /\ call.result.specifiedHeight = call.info.sourceHeight
        /\ call.result.currentZoomPercent = call.zoom
        /\ call.result.path = call.info.path

\* s is one or more digits
IsInteger(s) == Len(s) > 0 /\ \A i \in 0..(Len(s) - 1) : CharAt(s, i) \in Digits

\* the positions of an "x" that splits s into two integers
DimensionSplits(s) ==
    {k \in 1..(Len(s) - 2) :
        /\ CharAt(s, k) = "x"
        /\ IsInteger(Slice(s, 0, k)) /\ IsInteger(Slice(s, k + 1, Len(s)))}

\* C19: the record parsed from `![[a.png|suffix]]` has, when the suffix is an
\* integer, that width, no height and no alt text; when the suffix is integer x
\* integer, that width, that height and no alt text; and for every other suffix
\* the whole suffix as alt text and neither width nor height.
C19_WikilinkSuffix ==
    \A suffix \in Suffixes :
        call.fn = "parse" /\ call.lineText = WikilinkOf(suffix) =>
            /\ call.result.ok /\ call.result.path = "a.png" /\ ~call.result.isHtml
            /\ IF IsInteger(suffix)
               THEN /\ call.result.specifiedWidth = ParseInt(suffix)
                    /\ call.result.specifiedHeight = NoNum
                    /\ call.result.altText = Undef
               ELSE IF DimensionSplits(suffix) # {}
               THEN \A k \in DimensionSplits(suffix) :
                    /\ call.result.specifiedWidth = ParseInt(Slice(suffix, 0, k))
                    /\ call.result.specifiedHeight =
                          ParseInt(Slice(suffix, k + 1, Len(suffix)))
                    /\ call.result.altText = Undef
               ELSE /\ call.result.altText = suffix
                    /\ call.result.specifiedWidth = NoNum
                    /\ call.result.specifiedHeight = NoNum
            /\ suffix = "150" =>
                  call.result.specifiedWidth = 150 /\ call.result.altText = Undef
            /\ suffix = "150x80" =>
                  call.result.specifiedWidth = 150 /\ call.result.specifiedHeight = 80
            /\ suffix = "caption" =>
                  /\ call.result.altText = "caption"
                  /\ call.result.specifiedWidth = NoNum
                  /\ call.result.specifiedHeight = NoNum

\* C19 witness: a wikilink whose suffix begins with dimensions and goes on has
\* been parsed, and the whole suffix is the alt text
C19_Witness ==
    /\ call.fn = "parse" /\ call.lineText = WikilinkOf("150x80 wide")
    /\ call.result.ok /\ call.result.altText = "150x80 wide"
    /\ call.result.specifiedWidth = NoNum

\* C20: whenever the parser returns a record for a line, whichever grammar
\* matched, the path of the record is not the empty string.
C20_PathNeverEmpty ==
    call.fn = "parse" /\ call.result.ok => call.result.path # ""

\* C21: for every line the parser returns a record for, the start offset is not
\* negative, the original match is not empty, and the part of the line that
\* starts at the offset and has the length of the original match is the
\* original match.
C21_OriginalSpanExact ==
    call.fn # "none" /\ call.result.ok =>
        /\ call.result.startIndexInLine >= 0
        /\ Len(call.result.originalMatch) > 0
        /\ Slice(call.lineText, call.result.startIndexInLine,
                 call.result.startIndexInLine + Len(call.result.originalMatch))
              = call.result.originalMatch

\* C21 witness: a Markdown image that does not stand at the start of its line
\* has been parsed
C21_Witness ==
    /\ call.fn = "parse" /\ call.result.ok
    /\ call.result.startIndexInLine = 18
    /\ call.result.originalMatch = "![m](m.png)"

\* tag is `<img src="path" alt="alt" style="...">` whose style is, in this
\* order, `width: <w>px; ` or nothing (nothing when no width is given),
\* `height: <h>px; ` or nothing (nothing when no height is given), and
\* `zoom: <digits>%;`
TagFormat(tag, path, alt, w, h) ==
    \E front \in {"<img src=\"" \o path \o "\" alt=\"" \o alt \o "\" style=\""} :
    \E wt \in {""} \cup (IF w # NoNum THEN {"width: " \o ToString(w) \o "px; "} ELSE {}) :
    \E ht \in {""} \cup (IF h # NoNum THEN {"height: " \o ToString(h) \o "px; "} ELSE {}) :
    \E zs \in {Len(front) + Len(wt) + Len(ht) + 6} :
    \E ze \in {RunEnd(tag, zs, Digits, FALSE)} :
        /\ Slice(tag, 0, zs) = front \o wt \o ht \o "zoom: "
        /\ ze > zs
        /\ Slice(tag, ze, Len(tag)) = "%;\">"

Specials == {"&", "<", ">", "\"", "'"}

\* how many characters of s are in set
Count(s, set) == Cardinality({i \in 0..(Len(s) - 1) : CharAt(s, i) \in set})

\* the value of the alt attribute of a tag that begins with front: the text
\* up to the `" style="` that follows
AltValue(tag, front) ==
    Slice(tag, Len(front),
          Min({k \in Len(front)..Len(tag) : At(tag, k, "\" style=\"") \/ k = Len(tag)}))

\* C23: the tag rendered from a path and an alt text begins with
\* `<img src="`, the path as it is, and `" alt="`; the value of its alt
\* attribute has no raw `<`, `>`, `"` or `'`, has one entity for each ampersand,
\* `<`, `>`, `"` and `'` of the alt text and keeps every other character; the
\* alt text `a"b<c>&'d` is written as `a&quot;b&lt;c&gt;&amp;&#039;d`.
C23_AltEscaped ==
    call.fn = "render" =>
        \E front \in {"<img src=\"" \o call.info.path \o "\" alt=\""} :
        \E value \in {AltValue(call.lineText, front)} :
        \E alt \in {IF call.info.altText = Undef THEN "" ELSE call.info.altText} :
            /\ Slice(call.lineText, 0, Len(front)) = front
            /\ Count(value, {"<", ">", "\"", "'"}) = 0
            /\ Count(value, {"&"}) = Count(alt, Specials)
            /\ Count(value, {";"}) = Count(alt, Specials) + Count(alt, {";"})
            /\ Len(value) = Len(alt) + 4 * Count(alt, {"&"}) + 3 * Count(alt, {"<", ">"})
                            + 5 * Count(alt, {"\"", "'"})
            /\ alt = "cap" => value = "cap"
            /\ alt = "a\"b<c>&'d" => value = "a&quot;b&lt;c&gt;&amp;&#039;d"

\* C23 witness: a tag has been rendered from an alt text with all five
\* characters and a path with a quote
C23_Witness ==
    /\ call.fn = "render" /\ call.info.altText = "a\"b<c>&'d"
    /\ call.info.path = "it's.png"
    /\ AltValue(call.lineText, "<img src=\"it's.png\" alt=\"") = "a&quot;b&lt;c&gt;&amp;&#039;d"

\* C24: a gesture armed on the tag that a release wrote, ending at the zoom
\* the tag records, writes the same tag again.
C24_IdempotentCommit ==
    call.fn = "render" => call.again = call.lineText

\* C25: the tag written at arm for `![Alt Text|300x200](Image.jpg)` is
\* `<img src="Image.jpg" alt="Alt Text" style="zoom: 100%; width: 300px; height: 200px" />`.
C25_ReadmeFormat ==
    ev.kind = "arm" /\ ses.parsedInfo.originalMatch = "![Alt Text|300x200](Image.jpg)" =>
        /\ Len(ev.reps) = 1
        /\ ev.reps[1].insert =
              "<img src=\"Image.jpg\" alt=\"Alt Text\" "
              \o "style=\"zoom: 100%; width: 300px; height: 200px\" />"

\* the zoom in effect at arm: the zoom the HTML tag records, 100 otherwise
BaselineAtArm ==
    IF ses.parsedInfo.isHtml /\ ses.parsedInfo.currentZoomPercent # NoNum
    THEN ses.parsedInfo.currentZoomPercent ELSE 100

\* C26: the zoom of the tag written at release is, after a move, the zoom the
\* last move applied to the image, which is within [10, 500]; and with no move
\* since the press it is the baseline zoom of the session.
C26_CommitZoomReadBack ==
    ev.kind = "up" /\ ev.reps # << >> =>
        \E z \in {StyleNum(ev.reps[1].insert, "zoom:", "")} :
            IF ses.preview # NoNum
            THEN z = ses.preview /\ z >= 10 /\ z <= 500
            ELSE z = BaselineAtArm

\* C27: in every state in which the controller is dragging, the tracked image
\* element, the line recorded at arm and the image information recorded at arm
\* are set, and the path of that information is not empty.
C27_SessionComplete ==
    rc.isDragging =>
        /\ rc.activeImgElement # NoImg
        /\ rc.lineInfoAtDragStart # NoLineInfo
        /\ rc.draggedImageInfo.set
        /\ rc.draggedImageInfo.path # ""

\* C28: an edit from outside notified to the plugin while it is dragging ends
\* the session only if the tracked image is no longer in the document; when
\* the image is still there the controller goes on dragging with its fields
\* as they were.
C28_AbortOnlyOnDetached ==
    [][ev'.kind = "edit" /\ rc.isDragging /\ rc.activeImgElement # NoImg
         /\ dom.inBody[rc.activeImgElement] => rc' = rc]_vars

C31_RewritesPressedImage ==
    ses.pos \in ImgStarts(ses.docAtArm) =>
        /\ ev.kind = "arm" /\ ev.reps # << >> =>
              /\ ev.reps[1].from = ses.pos
              /\ Slice(doc, 0, ses.pos) = Slice(ev.before, 0, ses.pos)
        /\ ev.kind = "up" /\ ev.reps # << >> /\ ~ses.edited
             /\ (ses.armTag = "" \/ ArmFrom = ses.pos) =>
              /\ ev.reps[1].from = ses.pos
              /\ Slice(doc, 0, ses.pos) = Slice(ev.before, 0, ses.pos)

\* C32: after a press has upgraded a Markdown or Wikilink notation, the parser
\* reads the rewritten line as an HTML tag with the path, the width and the
\* height recorded at arm and the zoom 100.
C32_UpgradeVisibleToParser ==
    ev.kind = "arm" /\ ev.reps # << >> =>
        \E info \in {parseImageSyntaxFromLine(LineAt(doc, ses.lineInfo.lineFrom).text)} :
            /\ info.ok /\ info.isHtml
            /\ info.path = ses.parsedInfo.path
            /\ info.specifiedWidth = ses.parsedInfo.specifiedWidth
            /\ info.specifiedHeight = ses.parsedInfo.specifiedHeight
            /\ info.currentZoomPercent = 100

\* C33: a move handled during a drag that goes on changes no field of the
\* controller and not the document, and the zoom it gives the tracked image is
\* the zoom computed from the baseline zoom, the image centre and the baseline
\* distance of the session and one pointer position, whatever zoom the image
\* had before.
C33_MoveHistoryFree ==
    [][ev'.kind = "move" /\ rc.isDragging /\ rc'.isDragging =>
          /\ rc' = rc /\ doc' = doc /\ head' = head
          /\ \E pt \in MovePoints :
                /\ dom'.zoom[rc.activeImgElement] =
                      ToString(NewZoom(rc', pt[1], pt[2])) \o "%"
                /\ ses'.preview = NewZoom(rc', pt[1], pt[2])]_vars

\* C33 witness: a move to the image centre has been handled during a drag
\* whose baseline zoom is 100, and the image has the zoom 76%
C33_Witness ==
    /\ ev.kind = "move" /\ ev.dragging /\ rc.isDragging
    /\ rc.currentZoomPercent = 100 /\ ses.preview = 76
    /\ \A e \in Imgs : dom.zoom[e] = "76%"

\* pointer positions at the centre of the image, near it, at the distance of
\* the press on all four sides, and farther away
RadialPoints ==
    { <<220, 150>>, <<222, 150>>, <<223, 150>>, <<220, 147>>, <<224, 153>>,
      <<340, 150>>, <<100, 150>>, <<220, 270>>, <<220, 30>>,
      <<341, 150>>, <<343, 150>>, <<590, 150>>, <<520, 550>>, <<3220, 150>> }

\* the distance of a pointer position from the centre of the tracked image
Radial(pt) == Distance(pt[1] - rc.imageCenterX, pt[2] - rc.imageCenterY)

\* C34: in every session, of two pointer positions the one that is at least as
\* far from the centre of the image gets at least the zoom of the other, and a
\* position at the distance of the press gets the baseline zoom, clamped to
\* [10, 500].
C34_ZoomMonotone ==
    rc.isDragging =>
        \E zooms \in { { <<Radial(p), NewZoom(rc, p[1], p[2])>> : p \in RadialPoints } } :
            /\ \A p \in zooms, q \in zooms : q[1] >= p[1] => q[2] >= p[2]
            /\ \A p \in zooms :
                  p[1] = rc.initialDistanceToCenter =>
                      p[2] = IF rc.currentZoomPercent < 10 THEN 10
                             ELSE IF rc.currentZoomPercent > 500 THEN 500
                             ELSE rc.currentZoomPercent
            /\ \E p \in zooms : p[1] = rc.initialDistanceToCenter

\* C34 witness: in a session with the baseline zoom 80 a move to the centre of
\* the image has applied a smaller zoom than the baseline
C34_Witness ==
    /\ rc.isDragging /\ ev.kind = "move" /\ rc.currentZoomPercent = 80
    /\ rc.initialDistanceToCenter = 120
    /\ ses.preview = 56 /\ NewZoom(rc, 220, 150) = 56 /\ NewZoom(rc, 590, 150) = 130

\* C35: every HTML tag with a src and a style that holds `zoom: 50%` is parsed
\* with the zoom 50, with or without a width, a height or an alt attribute, and
\* with the alt attribute before or after the style.
C35_StyleIndependent ==
    call.fn = "parse" /\ call.lineText \in StyledTags =>
        /\ call.result.ok /\ call.result.isHtml
        /\ call.result.currentZoomPercent = 50

\* C36: in every record the parser returns, the path has no white space at
\* its start or its end, and neither has the alt text when there is one.
C36_Trimmed ==
    call.fn # "none" /\ call.result.ok =>
        /\ call.result.path = Trim(call.result.path)
        /\ call.result.altText # Undef =>
              call.result.altText = Trim(call.result.altText)

\* C37: whenever the Markdown grammar matches a line, the alt text of the
\* record has no `]`, and the span of the record holds one `![` only, the one
\* it starts with.
C37_AltWithoutBracket ==
    call.fn = "parse" /\ call.result.ok /\ parseMarkdown(call.lineText).ok =>
        /\ call.result.altText # Undef => Count(call.result.altText, {"]"}) = 0
        /\ \A k \in 1..(Len(call.result.originalMatch) - 2) :
              ~At(call.result.originalMatch, k, "![")

\* C38: for every replacement the program asks for whose range lies inside the
\* document, the selection it passes, the cursor head read before the
\* replacement, is not beyond the end of the document the replacement gives.
C38_SelectionInsideDocument ==
    \A i \in DOMAIN ev.tried :
        \E t \in {ev.tried[i]} :
            t.from >= 0 /\ t.from <= t.to /\ t.to <= Len(DocBefore) =>
                /\ t.anchor >= 0
                /\ t.anchor <= Len(DocBefore) - (t.to - t.from) + Len(t.insert)

====
